---- MODULE Spec2Model ----
(***************************************************************************)
(* Model of the three variants of api/analyze.js of llm-visibility-tool:   *)
(*   - the commercial handler (src/llm-tool/api/analyze.js): API-key       *)
(*     validation, per-key rate limiting and usage metering on a shared    *)
(*     counter store (@vercel/kv), SSRF pattern guard, one outbound fetch; *)
(*   - the two open handlers (src/unnamed/part_000, src/unnamed/part_001): *)
(*     URL normalisation, sitemap candidate probing, tryFetch.             *)
(* A request is a process whose steps are the stretches of handler code    *)
(* between two awaits; the store and the target site are the environment.  *)
(* Strings are TLA+ strings; the regular expressions and String methods of *)
(* the source are computed character by character.                         *)
(***************************************************************************)
EXTENDS Integers, Sequences, FiniteSets, TLC

----------------------------------------------------------------------------
(* String helpers: the JavaScript String / RegExp operations the handlers  *)
(* use.  Intermediate results are passed as operator arguments.            *)

Ch(s, i) == SubSeq(s, i, i)

StartsWith(s, p) == Len(s) >= Len(p) /\ SubSeq(s, 1, Len(p)) = p

EndsWith(s, p) == Len(s) >= Len(p) /\ SubSeq(s, Len(s) - Len(p) + 1, Len(s)) = p

Includes(s, p) == \E i \in 1..(Len(s) + 1) :
                     i + Len(p) - 1 <= Len(s) /\ SubSeq(s, i, i + Len(p) - 1) = p

Drop(s, n) == SubSeq(s, n + 1, Len(s))

MinOrZero(S) == IF S = {} THEN 0 ELSE CHOOSE m \in S : \A x \in S : m <= x
MaxOrZero(S) == IF S = {} THEN 0 ELSE CHOOSE m \in S : \A x \in S : m >= x

(* s.indexOf(c) + 1 and s.lastIndexOf(c) + 1 *)
IndexOf(s, c) == MinOrZero({i \in 1..Len(s) : Ch(s, i) = c})
LastIndexOf(s, c) == MaxOrZero({i \in 1..Len(s) : Ch(s, i) = c})

(* the part of s before position i, all of s when i = 0 *)
CutAt(s, i) == IF i > 0 THEN SubSeq(s, 1, i - 1) ELSE s

(* the part of s before the first c *)
Before(s, c) == CutAt(s, IndexOf(s, c))

UpperChars == "ABCDEFGHIJKLMNOPQRSTUVWXYZ"
LowerChars == "abcdefghijklmnopqrstuvwxyz"
DigitChars == "0123456789"

CharsOf(s) == {Ch(s, i) : i \in 1..Len(s)}

IsDigit(c) == c \in CharsOf(DigitChars)
IsUpper(c) == c \in CharsOf(UpperChars)
IsAlpha(c) == IsUpper(c) \/ c \in CharsOf(LowerChars)

LowerCh(c) == IF IsUpper(c) THEN Ch(LowerChars, IndexOf(UpperChars, c)) ELSE c

RECURSIVE ToLower(_)
ToLower(s) == IF Len(s) = 0 THEN "" ELSE LowerCh(Ch(s, 1)) \o ToLower(Drop(s, 1))

(* String.prototype.trim, for the blank character. *)
RECURSIVE TrimLeft(_)
TrimLeft(s) == IF Len(s) > 0 /\ Ch(s, 1) = " " THEN TrimLeft(Drop(s, 1)) ELSE s

RECURSIVE TrimRight(_)
TrimRight(s) == IF Len(s) > 0 /\ Ch(s, Len(s)) = " "
                THEN TrimRight(SubSeq(s, 1, Len(s) - 1)) ELSE s

Trim(s) == TrimRight(TrimLeft(s))

(* .replace(/^https?:\/\//, '') : case-sensitive, anchored, first match.   *)
StripScheme(s) == IF StartsWith(s, "http://") THEN Drop(s, 7)
                  ELSE IF StartsWith(s, "https://") THEN Drop(s, 8)
                  ELSE s

(* .replace(/\/$/, '') *)
StripTrailingSlash(s) == IF EndsWith(s, "/") THEN SubSeq(s, 1, Len(s) - 1) ELSE s

----------------------------------------------------------------------------
(* URL parsing: what `new URL(u)` and `new URL(path, base)` compute for    *)
(* the inputs of the model (scheme, authority, hostname, pathname).  The   *)
(* operators below take the string already trimmed.                        *)

IsSchemeCh(c) == IsAlpha(c) \/ IsDigit(c) \/ c = "+" \/ c = "-" \/ c = "."

SchemeEndsAt(s, i) == /\ i > 1
                      /\ IsAlpha(Ch(s, 1))
                      /\ \A j \in 1..(i - 1) : IsSchemeCh(Ch(s, j))

HasScheme(s) == SchemeEndsAt(s, IndexOf(s, ":"))

Protocol(s) == ToLower(SubSeq(s, 1, IndexOf(s, ":")))

IsSpecial(s) == Protocol(s) \in {"http:", "https:"}

RECURSIVE StripSlashes(_)
StripSlashes(s) == IF Len(s) > 0 /\ Ch(s, 1) = "/" THEN StripSlashes(Drop(s, 1)) ELSE s

AfterColon(special, rest) == IF special THEN StripSlashes(rest)
                             ELSE IF StartsWith(rest, "//") THEN Drop(rest, 2)
                             ELSE ""

(* What follows "scheme:" and the slashes after it. *)
AfterScheme(s) == AfterColon(IsSpecial(s), Drop(s, IndexOf(s, ":")))

IsAuthorityEnd(c) == c = "/" \/ c = "?" \/ c = "#"

(* the part of t before the first "/", "?" or "#" *)
TakeAuthority(t) == CutAt(t, MinOrZero({i \in 1..Len(t) : IsAuthorityEnd(Ch(t, i))}))

Authority(s) == TakeAuthority(AfterScheme(s))

(* host[:port], the userinfo before the last "@" dropped *)
AfterUserinfo(a) == Drop(a, LastIndexOf(a, "@"))

Hostname(s) == ToLower(Before(AfterUserinfo(Authority(s)), ":"))

IsHostCh(c) == IsAlpha(c) \/ IsDigit(c) \/ c = "." \/ c = "-" \/ c = "_"

ValidHost(h) == Len(h) > 0 /\ \A i \in 1..Len(h) : IsHostCh(Ch(h, i))

ParsesAsUrl(s) == HasScheme(s) /\ (IsSpecial(s) => ValidHost(Hostname(s)))

(* `new URL(u)` does not throw *)
IsAbsoluteUrl(u) == ParsesAsUrl(Trim(u))

OrSlash(p) == IF Len(p) = 0 THEN "/" ELSE p

(* the path of what follows the scheme: after the authority, before the    *)
(* query and the fragment                                                  *)
PathAfterAuthority(t) == OrSlash(Before(Before(Drop(t, Len(TakeAuthority(t))), "?"), "#"))

Pathname(u) == PathAfterAuthority(AfterScheme(Trim(u)))

JoinUrl(b, path) == Protocol(b) \o "//" \o ToLower(Authority(b)) \o path

(* `new URL(path, base).href` for an absolute path: scheme and authority   *)
(* of the base, the path replaced.                                         *)
UrlWithPath(path, base) == JoinUrl(Trim(base), path)

----------------------------------------------------------------------------
(* Configuration (process.env) and the constants of the commercial handler *)

(* VALID_API_KEYS = "kT,kB"; TIER_kT = "trial"; no TIER_kB. *)
ValidKeys == {"kT", "kB"}

TierEnv(k) == IF k = "kT" THEN "trial" ELSE ""

limits == [trial |-> 10, basic |-> 100, pro |-> 1000, unlimited |-> 999999]

(* const tier = process.env[`TIER_${apiKey}`] || 'basic' *)
TierOf(k) == IF TierEnv(k) # "" THEN TierEnv(k) ELSE "basic"

(* const limit = limits[tier] || limits.basic *)
LimitOf(k) == IF TierOf(k) \in DOMAIN limits THEN limits[TierOf(k)] ELSE limits.basic

RateWindow == 3600
UsageRetention == 2592000
(* the time to live of a key kv.expire was never called on *)
NoExpiry == -1

(* blockedPatterns.some(pattern => pattern.test(targetUrl)) *)
Blocked(t) ==
    \/ StartsWith(ToLower(t), "localhost")                     \* /^localhost/i
    \/ StartsWith(t, "127.")                                   \* /^127\./
    \/ StartsWith(t, "10.")                                    \* /^10\./
    \/ StartsWith(t, "192.168.")                               \* /^192\.168\./
    \/ /\ StartsWith(t, "172.")                                \* /^172\.(1[6-9]|2[0-9]|3[0-1])\./
       /\ Len(t) >= 7
       /\ \/ Ch(t, 5) = "1" /\ Ch(t, 6) \in {"6", "7", "8", "9"}
          \/ Ch(t, 5) = "2" /\ IsDigit(Ch(t, 6))
          \/ Ch(t, 5) = "3" /\ Ch(t, 6) \in {"0", "1"}
       /\ Ch(t, 7) = "."
    \/ StartsWith(t, "0.0.0.0")                                \* /^0\.0\.0\.0/

(* let targetUrl = url.trim().replace(/^https?:\/\//, '').replace(/\/$/, '') *)
CleanUrl(url) == StripTrailingSlash(StripScheme(Trim(url)))

(* Add protocol if missing *)
WithProtocol(t) == IF StartsWith(t, "http://") \/ StartsWith(t, "https://")
                   THEN t ELSE "https://" \o t

(* switch(type): the resource path of a type, "" for the default branch *)
TypePath(type) == CASE type = "robots"  -> "/robots.txt"
                    [] type = "sitemap" -> "/sitemap.xml"
                    [] type = "llms"    -> "/llms.txt"
                    [] OTHER            -> ""

----------------------------------------------------------------------------
(* The target site: how the remote host answers the outbound GET.  The     *)
(* profile is fixed for a behaviour; the outcome depends on the path.      *)

Answer(status, ct) == [kind |-> "response", status |-> status, ct |-> ct,
                       body |-> "ok", late |-> FALSE]

SitemapPaths == {"/sitemap.xml", "/sitemap_index.xml", "/sitemap"}

SiteOutcome(profile, path) ==
        CASE profile = "up"        -> Answer(200, "text/html")
          [] profile = "indexonly" -> IF path = "/sitemap_index.xml"
                                      THEN Answer(200, "application/xml")
                                      ELSE IF path \in SitemapPaths
                                      THEN Answer(404, "text/html")
                                      ELSE Answer(200, "text/html")
          [] profile = "nositemap" -> IF path \in SitemapPaths
                                      THEN Answer(404, "text/html")
                                      ELSE Answer(200, "text/html")
          [] profile = "err500"    -> Answer(500, "text/plain")
          [] profile = "binary"    -> Answer(200, "image/png")
          [] profile = "slow"      -> [Answer(200, "text/html") EXCEPT !.late = TRUE]
          [] profile = "stall"     -> [Answer(200, "text/html") EXCEPT !.body = "never"]
          [] profile = "reset"     -> [Answer(200, "text/html") EXCEPT !.body = "err"]
          [] profile = "down"      -> [Answer(0, "") EXCEPT !.kind = "neterr"]
          [] OTHER                 -> [Answer(0, "") EXCEPT !.kind = "silent", !.late = TRUE]

(* response.ok *)
IsOk(status) == status >= 200 /\ status <= 299

----------------------------------------------------------------------------
(* State *)

VARIABLES
    rate,        \* counter store: value of ratelimit:<key>, 0 when the key is absent
    rateTtl,     \* counter store: seconds left of ratelimit:<key>, NoExpiry when none
    usage,       \* counter store: value of usage:<key>:<day>
    usageTtl,    \* counter store: the expiry given to usage:<key>:<day>, NoExpiry when none
    day,         \* the calendar day of new Date()
    site,        \* the target site's profile
    req,         \* the invocations of the handler, each at a position of its code
    arrivals,    \* number of requests received so far
    calls,       \* per key: requests that called kv.incr on the rate key in the bucket
    incrs,       \* per key: kv.incr calls on the rate key that succeeded in the bucket
    admitted,    \* per key: requests of the bucket let through by the limit check
    faults       \* number of store calls that threw so far

vars == <<rate, rateTtl, usage, usageTtl, day, site, req, arrivals, calls, incrs, admitted, faults>>

store == <<rate, rateTtl, usage, usageTtl>>
ghosts == <<calls, incrs, admitted>>
env == <<day, site>>

MaxArrivals == 2
MaxDay == 1
MaxFaults == 1
TickSeconds == 1800

Days == 0..MaxDay

IdleReq == [pc |-> "idle", variant |-> "", method |-> "", hdrKey |-> "", qryKey |-> "",
            apiKey |-> "", url |-> "", type |-> "", requestCount |-> 0,
            rlThrew |-> FALSE, usThrew |-> FALSE, resourceUrl |-> "",
            timer |-> "none", status |-> 0, code |-> "", respUrl |-> "",
            usageDay |-> 0, remaining |-> -1,
            aborted |-> FALSE, leaked |-> 0, targets |-> <<>>, paths |-> <<>>,
            rateIncs |-> 0, usageIncs |-> 0, fetched |-> <<>>, cand |-> 0]

(* The counters of a store in which n[k] requests of key k were served one *)
(* after the other in the current hour, the store working: a state the     *)
(* program reaches after sum of n[k] requests.                             *)
Served(n) ==
    /\ rate = n
    /\ rateTtl = [k \in ValidKeys |-> IF n[k] > 0 THEN RateWindow ELSE NoExpiry]
    /\ usage = [k \in ValidKeys |-> [d \in Days |-> IF d = 0 THEN n[k] ELSE 0]]
    /\ usageTtl = [k \in ValidKeys |->
                     [d \in Days |-> IF d = 0 /\ n[k] > 0 THEN UsageRetention ELSE NoExpiry]]
    /\ calls = n
    /\ incrs = n
    /\ admitted = n

Fresh == [k \in ValidKeys |-> 0]

(* one key one request short of its quota, the other not yet used *)
Histories == {[Fresh EXCEPT ![k] = LimitOf(k) - 1] : k \in ValidKeys}

InitWith(sites, slots, histories) ==
    /\ \E n \in histories : Served(n)
    /\ day = 0
    /\ site \in sites
    /\ req = [r \in slots |-> IdleReq]
    /\ arrivals = 0
    /\ faults = 0

Respond(rec, status, code) == [rec EXCEPT !.pc = "done", !.status = status, !.code = code]

----------------------------------------------------------------------------
(* The commercial handler, src/llm-tool/api/analyze.js.  Each action is    *)
(* one stretch of the handler between two awaits, together with the store  *)
(* or network event that resumes it.                                       *)

Slots == DOMAIN req

(* requests as the handler sees them: method, x-api-key header, apiKey,    *)
(* url and type query parameters ("" when absent)                          *)
Requests(methods, hdrKeys, qryKeys, urls, types) ==
    [method : methods, hdr : hdrKeys, qry : qryKeys, url : urls, type : types]

(* The inputs of the model: the url and type query parameters *)
AllUrls == {"", "example.com", "https://example.com/", "http://example.com/docs",
            "example.com/sitemap.xml", "exa mple.com",
            "127.0.0.1", "http://10.1.2.3", "https://192.168.1.1/admin",
            "172.16.0.5", "localhost", "0.0.0.0", " 10.0.0.7", "10.1.2.3"}
AllTypes == {"html", "robots", "sitemap", "llms"}

(* lines 160-170: the fetch of the resource URL, which fetch rejects when  *)
(* it cannot parse it                                                      *)
ResolveFetch(resourceUrl) ==
    IF ~IsAbsoluteUrl(resourceUrl)
    THEN [outcome |-> "rejects", resourceUrl |-> resourceUrl, path |-> ""]
    ELSE [outcome |-> "fetch", resourceUrl |-> resourceUrl, path |-> Pathname(resourceUrl)]

(* lines 143-158: switch(type); new URL(path, targetUrl) throws when the   *)
(* base does not parse                                                     *)
ResolveResource(targetUrl, path) ==
    IF path = "" THEN ResolveFetch(targetUrl)
    ELSE IF ~IsAbsoluteUrl(targetUrl)
    THEN [outcome |-> "throws", resourceUrl |-> "", path |-> ""]
    ELSE ResolveFetch(UrlWithPath(path, targetUrl))

(* lines 117-138: the SSRF guard on the cleaned url, then the protocol     *)
ResolveCleaned(cleaned, path) ==
    IF Blocked(cleaned) THEN [outcome |-> "blocked", resourceUrl |-> "", path |-> ""]
    ELSE ResolveResource(WithProtocol(cleaned), path)

(* lines 114-170: what the handler does with a non-empty url *)
ResolveTarget(url, type) == ResolveCleaned(CleanUrl(url), TypePath(type))

(* ResolveTarget, tabulated over the inputs *)
Resolved == [u \in AllUrls, t \in AllTypes |-> ResolveTarget(u, t)]

(* lines 100-170: url check, cleaning, SSRF guard, resource URL, start of  *)
(* the fetch with its abort timer                                          *)
Main(rec) ==
    IF rec.url = "" THEN Respond(rec, 400, "MISSING_URL")
    ELSE LET res == Resolved[rec.url, rec.type]
             started == [rec EXCEPT !.resourceUrl = res.resourceUrl,
                                    !.targets = <<res.resourceUrl>>,
                                    !.paths = <<res.path>>,
                                    !.timer = "pending"]
         IN  CASE res.outcome = "blocked" -> Respond(rec, 403, "BLOCKED_URL")
               [] res.outcome = "throws"  -> Respond(rec, 500, "INTERNAL_ERROR")
               [] res.outcome = "rejects" -> Respond(started, 500, "INTERNAL_ERROR")
               [] OTHER -> [started EXCEPT !.pc = "fetch",
                                           !.fetched = Append(@, res.resourceUrl)]

(* LimitCheck with the comparison off by one: `>` read as "more than one  *)
(* over"                                                                   *)
LimitCheckOffByOne(rec) ==
    IF rec.requestCount > LimitOf(rec.apiKey) + 1
    THEN Respond(rec, 429, "RATE_LIMIT_EXCEEDED")
    ELSE [rec EXCEPT !.pc = "us_incr", !.usageDay = day,
                     !.remaining = IF LimitOf(rec.apiKey) - rec.requestCount > 0
                                   THEN LimitOf(rec.apiKey) - rec.requestCount ELSE 0]

(* LimitCheck with the url parameter examined before usage tracking *)
LimitCheckUrlFirst(rec) ==
    IF rec.requestCount > LimitOf(rec.apiKey)
    THEN Respond(rec, 429, "RATE_LIMIT_EXCEEDED")
    ELSE IF rec.url = "" THEN Respond(rec, 400, "MISSING_URL")
    ELSE [rec EXCEPT !.pc = "us_incr", !.usageDay = day,
                     !.remaining = IF LimitOf(rec.apiKey) - rec.requestCount > 0
                                   THEN LimitOf(rec.apiKey) - rec.requestCount ELSE 0]

(* lines 55-80 and 91-93: the limit check after the increment *)
LimitCheck(rec) ==
    IF rec.requestCount > LimitOf(rec.apiKey)
    THEN Respond(rec, 429, "RATE_LIMIT_EXCEEDED")
    ELSE [rec EXCEPT !.pc = "us_incr", !.usageDay = day,
                     !.remaining = IF LimitOf(rec.apiKey) - rec.requestCount > 0
                                   THEN LimitOf(rec.apiKey) - rec.requestCount ELSE 0]

(* SkipRateLimit without the catch: the store error fails the request *)
SkipRateLimitFails(rec) == Respond([rec EXCEPT !.rlThrew = TRUE], 500, "INTERNAL_ERROR")

(* catch (kvError): continue without rate limiting *)
SkipRateLimit(rec) == [rec EXCEPT !.pc = "us_incr", !.rlThrew = TRUE, !.usageDay = day]

Passes(rec) == IF rec.pc = "us_incr" THEN 1 ELSE 0

(* CReceive without the check of the key against the valid keys *)
CReceiveUnvalidated(r, inputs, maxArrivals) ==
    /\ req[r].pc \in {"idle", "done"}
    /\ arrivals < maxArrivals
    /\ \E in \in inputs :
         LET apiKey == IF in.hdr # "" THEN in.hdr ELSE in.qry
             rec == [IdleReq EXCEPT !.variant = "commercial", !.method = in.method,
                                    !.hdrKey = in.hdr, !.qryKey = in.qry, !.url = in.url,
                                    !.type = IF in.type = "" THEN "html" ELSE in.type]
         IN  req' = [req EXCEPT ![r] =
                 IF in.method = "OPTIONS" THEN Respond(rec, 200, "")
                 ELSE IF apiKey = "" THEN Respond(rec, 401, "MISSING_API_KEY")
                 ELSE [rec EXCEPT !.pc = "rl_incr", !.apiKey = apiKey]]
    /\ arrivals' = arrivals + 1
    /\ UNCHANGED <<store, day, site, ghosts, faults>>

(* lines 6-48: CORS, OPTIONS, key validation, the call of kv.incr *)
CReceive(r, inputs, maxArrivals) ==
    /\ req[r].pc \in {"idle", "done"}
    /\ arrivals < maxArrivals
    /\ \E in \in inputs :
         LET apiKey == IF in.hdr # "" THEN in.hdr ELSE in.qry
             rec == [IdleReq EXCEPT !.variant = "commercial", !.method = in.method,
                                    !.hdrKey = in.hdr, !.qryKey = in.qry, !.url = in.url,
                                    !.type = IF in.type = "" THEN "html" ELSE in.type]
         IN  req' = [req EXCEPT ![r] =
                 IF in.method = "OPTIONS" THEN Respond(rec, 200, "")
                 ELSE IF apiKey = "" THEN Respond(rec, 401, "MISSING_API_KEY")
                 ELSE IF apiKey \notin ValidKeys THEN Respond(rec, 401, "INVALID_API_KEY")
                 ELSE [rec EXCEPT !.pc = "rl_incr", !.apiKey = apiKey]]
    /\ arrivals' = arrivals + 1
    /\ UNCHANGED <<store, day, site, ghosts, faults>>

(* RateIncr that takes the increment back when the request is rejected *)
RateIncrRollback(r) ==
    /\ req[r].pc = "rl_incr"
    /\ LET k == req[r].apiKey
           n == rate[k] + 1
           rec == [req[r] EXCEPT !.requestCount = n, !.rateIncs = @ + 1]
           next == IF n = 1 THEN [rec EXCEPT !.pc = "rl_expire"] ELSE LimitCheck(rec)
       IN  /\ rate' = [rate EXCEPT ![k] = IF next.status = 429 THEN @ ELSE n]
           /\ req' = [req EXCEPT ![r] = next]
           /\ calls' = [calls EXCEPT ![k] = @ + 1]
           /\ incrs' = [incrs EXCEPT ![k] = @ + 1]
           /\ admitted' = [admitted EXCEPT ![k] = @ + Passes(next)]
    /\ UNCHANGED <<rateTtl, usage, usageTtl, day, site, arrivals, faults>>

(* line 48 resolves: the store increments atomically and returns the count *)
RateIncr(r) ==
    /\ req[r].pc = "rl_incr"
    /\ LET k == req[r].apiKey
           n == rate[k] + 1
           rec == [req[r] EXCEPT !.requestCount = n, !.rateIncs = @ + 1]
           next == IF n = 1 THEN [rec EXCEPT !.pc = "rl_expire"] ELSE LimitCheck(rec)
       IN  /\ rate' = [rate EXCEPT ![k] = n]
           /\ req' = [req EXCEPT ![r] = next]
           /\ calls' = [calls EXCEPT ![k] = @ + 1]
           /\ incrs' = [incrs EXCEPT ![k] = @ + 1]
           /\ admitted' = [admitted EXCEPT ![k] = @ + Passes(next)]
    /\ UNCHANGED <<rateTtl, usage, usageTtl, day, site, arrivals, faults>>

(* line 48 throws *)
RateIncrThrows(r) ==
    /\ faults < MaxFaults
    /\ faults' = faults + 1
    /\ req[r].pc = "rl_incr"
    /\ req' = [req EXCEPT ![r] = SkipRateLimit(@)]
    /\ calls' = [calls EXCEPT ![req[r].apiKey] = @ + 1]
    /\ UNCHANGED <<store, day, site, arrivals, incrs, admitted>>

(* line 52 resolves: first request of the bucket sets the expiry *)
RateExpire(r) ==
    /\ req[r].pc = "rl_expire"
    /\ LET k == req[r].apiKey
           next == LimitCheck(req[r])
       IN  /\ rateTtl' = [rateTtl EXCEPT ![k] = IF rate[k] > 0 THEN RateWindow ELSE @]
           /\ req' = [req EXCEPT ![r] = next]
           /\ admitted' = [admitted EXCEPT ![k] = @ + Passes(next)]
    /\ UNCHANGED <<rate, usage, usageTtl, day, site, arrivals, calls, incrs, faults>>

(* line 52 throws *)
RateExpireThrows(r) ==
    /\ faults < MaxFaults
    /\ faults' = faults + 1
    /\ req[r].pc = "rl_expire"
    /\ req' = [req EXCEPT ![r] = SkipRateLimit(@)]
    /\ UNCHANGED <<store, day, site, arrivals, ghosts>>

(* line 94 resolves *)
UsageIncr(r) ==
    /\ req[r].pc = "us_incr"
    /\ usage' = [usage EXCEPT ![req[r].apiKey][req[r].usageDay] = @ + 1]
    /\ req' = [req EXCEPT ![r].pc = "us_expire", ![r].usageIncs = @ + 1]
    /\ UNCHANGED <<rate, rateTtl, usageTtl, day, site, arrivals, ghosts, faults>>

(* line 94 throws: line 95 is skipped *)
UsageIncrThrows(r) ==
    /\ faults < MaxFaults
    /\ faults' = faults + 1
    /\ req[r].pc = "us_incr"
    /\ req' = [req EXCEPT ![r] = Main([@ EXCEPT !.usThrew = TRUE])]
    /\ UNCHANGED <<store, day, site, arrivals, ghosts>>

(* line 95 resolves *)
UsageExpire(r) ==
    /\ req[r].pc = "us_expire"
    /\ usageTtl' = [usageTtl EXCEPT ![req[r].apiKey][req[r].usageDay] = UsageRetention]
    /\ req' = [req EXCEPT ![r] = Main(@)]
    /\ UNCHANGED <<rate, rateTtl, usage, day, site, arrivals, ghosts, faults>>

(* line 95 throws *)
UsageExpireThrows(r) ==
    /\ faults < MaxFaults
    /\ faults' = faults + 1
    /\ req[r].pc = "us_expire"
    /\ req' = [req EXCEPT ![r] = Main([@ EXCEPT !.usThrew = TRUE])]
    /\ UNCHANGED <<store, day, site, arrivals, ghosts>>

(* the position of the current fetch among the targets of the request *)
FetchIndex(rec) == IF rec.cand = 0 THEN 1 ELSE rec.cand

(* what the target does with the fetch request r is waiting for *)
Outcome(r) == SiteOutcome(site, req[r].paths[FetchIndex(req[r])])

IsCommercialAt(r, pc) == req[r].variant = "commercial" /\ req[r].pc = pc

(* lines 164-181: the response headers arrive; the timer is cleared *)
FetchResponds(r) ==
    /\ IsCommercialAt(r, "fetch")
    /\ LET out == Outcome(r)
           rec == [req[r] EXCEPT !.timer = "cleared"]
       IN  /\ out.kind = "response"
           /\ req' = [req EXCEPT ![r] =
                  IF ~IsOk(out.status)
                  THEN Respond([rec EXCEPT !.respUrl = rec.resourceUrl],
                               out.status, "FETCH_FAILED")
                  ELSE [rec EXCEPT !.pc = "body"]]
    /\ UNCHANGED <<store, day, site, arrivals, ghosts, faults>>

(* line 164 rejects with a network error: catch, lines 202-218 *)
FetchFails(r) ==
    /\ IsCommercialAt(r, "fetch")
    /\ Outcome(r).kind = "neterr"
    /\ req' = [req EXCEPT ![r] = Respond(@, 500, "INTERNAL_ERROR")]
    /\ UNCHANGED <<store, day, site, arrivals, ghosts, faults>>

(* line 162: the timer fires, controller.abort() rejects the fetch with    *)
(* AbortError: lines 205-210                                               *)
TimerFires(r) ==
    /\ IsCommercialAt(r, "fetch")
    /\ req[r].timer = "pending"
    /\ Outcome(r).late
    /\ req' = [req EXCEPT ![r] = Respond([@ EXCEPT !.timer = "fired", !.aborted = TRUE],
                                           504, "TIMEOUT")]
    /\ UNCHANGED <<store, day, site, arrivals, ghosts, faults>>

(* line 184 resolves: lines 186-200 *)
BodyArrives(r) ==
    /\ IsCommercialAt(r, "body")
    /\ Outcome(r).body = "ok"
    /\ req' = [req EXCEPT ![r] =
                 Respond([req[r] EXCEPT !.respUrl = req[r].resourceUrl], 200, "")]
    /\ UNCHANGED <<store, day, site, arrivals, ghosts, faults>>

(* line 184 rejects: lines 202-218 *)
BodyFails(r) ==
    /\ IsCommercialAt(r, "body")
    /\ Outcome(r).body = "err"
    /\ req' = [req EXCEPT ![r] = Respond(@, 500, "INTERNAL_ERROR")]
    /\ UNCHANGED <<store, day, site, arrivals, ghosts, faults>>

(* a timer nobody cleared fires after the response: abort() of a settled   *)
(* fetch does nothing                                                      *)
StaleTimerFires(r) ==
    /\ req[r].pc = "done"
    /\ req[r].timer = "pending"
    /\ req' = [req EXCEPT ![r].timer = "fired"]
    /\ UNCHANGED <<store, day, site, arrivals, ghosts, faults>>

----------------------------------------------------------------------------
(* The open handlers, src/unnamed/part_000 (variant "openA") and           *)
(* src/unnamed/part_001 (variant "openB"): no key, no counters, no guard.  *)

OpenVariants == {"openA", "openB"}

(* const normalize = (u) => { try { new URL(u); return u } catch { ... } } *)
Normalize(u) == IF IsAbsoluteUrl(u) THEN u
                ELSE "https://" \o StripTrailingSlash(StripScheme(u))

JoinHost(t, path) == Protocol(t) \o "//" \o Hostname(t) \o path

(* `${protocol}//${hostname}${path}` of new URL(target) *)
HostUrl(target, path) == JoinHost(Trim(target), path)

CandidatePaths == <<"/sitemap.xml", "/sitemap_index.xml", "/sitemap">>

Candidates(target) == [i \in 1..3 |-> HostUrl(target, CandidatePaths[i])]

(* part_001 lines 48-49: /sitemap/i.test(target) && /\.(xml|txt)?$/i.test(target) *)
MaybeSpecificLower(t) ==
    Includes(t, "sitemap") /\ (EndsWith(t, ".") \/ EndsWith(t, ".xml") \/ EndsWith(t, ".txt"))

MaybeSpecific(target) == MaybeSpecificLower(ToLower(target))

(* normalize, tabulated over the inputs *)
Normalized == [u \in AllUrls |-> Normalize(u)]

(* part_000 lines 28-45, part_001 lines 39-71: the URLs the handler will   *)
(* hand to tryFetch for a normalized target, in order; "probe" when they   *)
(* are the sitemap candidates, "throws" when new URL(target) throws        *)
OpenTargets(variant, target, type) ==
    IF type \in {"robots", "llms"} \/ (type = "sitemap" /\ ~(variant = "openB" /\ MaybeSpecific(target)))
    THEN IF ~IsAbsoluteUrl(target) THEN [mode |-> "throws", urls |-> <<>>]
         ELSE IF type = "sitemap" THEN [mode |-> "probe", urls |-> Candidates(target)]
         ELSE [mode |-> "single", urls |-> <<HostUrl(target, TypePath(type))>>]
    ELSE [mode |-> "single", urls |-> <<target>>]

(* OpenTargets, tabulated over the inputs *)
Targeted == [v \in OpenVariants, u \in AllUrls, t \in AllTypes |->
               OpenTargets(v, Normalized[u], t)]

(* the path fetch requests for a URL, "" when fetch rejects the URL *)
PathOrNone(u) == IF IsAbsoluteUrl(u) THEN Pathname(u) ELSE ""

(* the plan of a request: mode, URLs and their paths *)
WithPaths(tg) == [mode |-> tg.mode, urls |-> tg.urls,
                  paths |-> [i \in DOMAIN tg.urls |-> PathOrNone(tg.urls[i])]]

Planned == [v \in OpenVariants, u \in AllUrls, t \in AllTypes |-> WithPaths(Targeted[v, u, t])]

(* const isText = ct.includes('text') || ...   (part_000 line 70)          *)
(*                ct.includes('text/') || ...  (part_001 lines 110-114)    *)
IsText(variant, ct) ==
    \/ Includes(ct, IF variant = "openA" THEN "text" ELSE "text/")
    \/ Includes(ct, "xml")
    \/ Includes(ct, "json")
    \/ ct = ""

(* tryFetch(urls[i]) is called: lines 57-59 / 92-95.  A timer the previous *)
(* call left pending stays pending.                                        *)
StartTryFetch(rec, i) ==
    [rec EXCEPT !.pc = "fetch",
                !.resourceUrl = rec.targets[i],
                !.leaked = IF rec.timer = "pending" THEN @ + 1 ELSE @,
                !.timer = "pending",
                !.aborted = FALSE,
                !.fetched = Append(@, rec.targets[i])]

(* tryFetch returned: the rest of the handler.  statusCode is 0 when the   *)
(* result carries none.                                                    *)
AfterTryFetch(rec, success, statusCode, error) ==
    IF rec.cand > 0
    THEN IF success
         THEN Respond([rec EXCEPT !.respUrl = rec.resourceUrl], 200, "")
         ELSE IF rec.cand < Len(rec.targets)
         THEN StartTryFetch([rec EXCEPT !.cand = @ + 1], rec.cand + 1)
         ELSE Respond(rec, 404, "Sitemap not found")
    ELSE IF success
         THEN Respond([rec EXCEPT !.respUrl = rec.resourceUrl], 200, "")
         ELSE Respond(rec, IF statusCode # 0 THEN statusCode ELSE 500, error)

(* fetch rejects a URL it cannot parse: the catch of tryFetch *)
RECURSIVE SkipInvalid(_)
SkipInvalid(rec) ==
    IF rec.pc = "fetch" /\ rec.paths[FetchIndex(rec)] = ""
    THEN SkipInvalid(AfterTryFetch(rec, FALSE, 0, "Invalid URL"))
    ELSE rec

(* tryFetch after the headers and the body: lines 69-85 / 109-137 *)
TryFetchResult(rec, status) ==
    AfterTryFetch(rec, IsOk(status), status, "HTTP error")

(* handler lines 3-45 / 5-71 *)
OReceive(r, variants, inputs, maxArrivals) ==
    /\ req[r].pc \in {"idle", "done"}
    /\ arrivals < maxArrivals
    /\ \E variant \in variants, in \in inputs :
         LET url == in.url
             rec == [IdleReq EXCEPT !.variant = variant, !.method = in.method, !.url = url,
                                    !.type = IF in.type = "" THEN "html" ELSE in.type]
             plan == Planned[variant, url, rec.type]
         IN  req' = [req EXCEPT ![r] =
                 IF in.method = "OPTIONS" THEN Respond(rec, 200, "")
                 ELSE IF url = "" THEN Respond(rec, 200, "ready")
                 ELSE IF plan.mode = "throws"
                 THEN Respond(rec, 500, "Unhandled error")
                 ELSE SkipInvalid(StartTryFetch(
                          [rec EXCEPT !.cand = IF plan.mode = "probe" THEN 1 ELSE 0,
                                      !.targets = plan.urls, !.paths = plan.paths],
                          1))]
    /\ arrivals' = arrivals + 1
    /\ UNCHANGED <<store, day, site, ghosts, faults>>

IsOpenAt(r, pc) == req[r].variant \in OpenVariants /\ req[r].pc = pc

(* the headers arrive: clearTimeout, then the body is read if it is text   *)
OFetchResponds(r) ==
    /\ IsOpenAt(r, "fetch")
    /\ LET out == Outcome(r)
           rec == [req[r] EXCEPT !.timer = "cleared"]
       IN  /\ out.kind = "response"
           /\ req' = [req EXCEPT ![r] =
                  IF IsText(rec.variant, out.ct) THEN [rec EXCEPT !.pc = "body"]
                  ELSE TryFetchResult(rec, out.status)]
    /\ UNCHANGED <<store, day, site, arrivals, ghosts, faults>>

(* fetch rejects with a network error: the catch of tryFetch *)
OFetchFails(r) ==
    /\ IsOpenAt(r, "fetch")
    /\ Outcome(r).kind = "neterr"
    /\ req' = [req EXCEPT ![r] = AfterTryFetch(@, FALSE, 0, "fetch failed")]
    /\ UNCHANGED <<store, day, site, arrivals, ghosts, faults>>

(* the 12 s timer fires: abort, AbortError, the catch of tryFetch *)
OTimerFires(r) ==
    /\ IsOpenAt(r, "fetch")
    /\ req[r].timer = "pending"
    /\ Outcome(r).late
    /\ req' = [req EXCEPT ![r] =
                 AfterTryFetch([@ EXCEPT !.timer = "fired", !.aborted = TRUE],
                               FALSE, 0, "Timeout")]
    /\ UNCHANGED <<store, day, site, arrivals, ghosts, faults>>

(* resp.text() resolves *)
OBodyArrives(r) ==
    /\ IsOpenAt(r, "body")
    /\ Outcome(r).body = "ok"
    /\ req' = [req EXCEPT ![r] = TryFetchResult(@, Outcome(r).status)]
    /\ UNCHANGED <<store, day, site, arrivals, ghosts, faults>>

(* resp.text() rejects: the catch of tryFetch *)
OBodyFails(r) ==
    /\ IsOpenAt(r, "body")
    /\ Outcome(r).body = "err"
    /\ req' = [req EXCEPT ![r] = AfterTryFetch(@, FALSE, 0, "terminated")]
    /\ UNCHANGED <<store, day, site, arrivals, ghosts, faults>>

(* a timer left pending by an earlier tryFetch of the request fires *)
LeakedTimerFires(r) ==
    /\ req[r].leaked > 0
    /\ req' = [req EXCEPT ![r].leaked = @ - 1]
    /\ UNCHANGED <<store, day, site, arrivals, ghosts, faults>>

----------------------------------------------------------------------------
(* The environment: time *)

Expires(k) == rateTtl[k] # NoExpiry /\ rateTtl[k] - TickSeconds <= 0

(* TickSeconds pass: the store deletes the rate keys whose expiry is due   *)
Tick ==
    /\ \E k \in ValidKeys : rateTtl[k] # NoExpiry
    /\ rate' = [k \in ValidKeys |-> IF Expires(k) THEN 0 ELSE rate[k]]
    /\ rateTtl' = [k \in ValidKeys |-> IF rateTtl[k] = NoExpiry \/ Expires(k)
                                       THEN NoExpiry ELSE rateTtl[k] - TickSeconds]
    /\ calls' = [k \in ValidKeys |-> IF Expires(k) THEN 0 ELSE calls[k]]
    /\ incrs' = [k \in ValidKeys |-> IF Expires(k) THEN 0 ELSE incrs[k]]
    /\ admitted' = [k \in ValidKeys |-> IF Expires(k) THEN 0 ELSE admitted[k]]
    /\ UNCHANGED <<usage, usageTtl, day, site, req, arrivals, faults>>

(* the calendar day of new Date() changes *)
Midnight ==
    /\ day < MaxDay
    /\ day' = day + 1
    /\ UNCHANGED <<store, site, req, arrivals, ghosts, faults>>

----------------------------------------------------------------------------
(* The steps of the commercial handler after the request was received *)
CSteps ==
    \/ \E r \in Slots : RateIncr(r)
    \/ \E r \in Slots : RateIncrThrows(r)
    \/ \E r \in Slots : RateExpire(r)
    \/ \E r \in Slots : RateExpireThrows(r)
    \/ \E r \in Slots : UsageIncr(r)
    \/ \E r \in Slots : UsageIncrThrows(r)
    \/ \E r \in Slots : UsageExpire(r)
    \/ \E r \in Slots : UsageExpireThrows(r)
    \/ \E r \in Slots : FetchResponds(r)
    \/ \E r \in Slots : FetchFails(r)
    \/ \E r \in Slots : TimerFires(r)
    \/ \E r \in Slots : BodyArrives(r)
    \/ \E r \in Slots : BodyFails(r)
    \/ \E r \in Slots : StaleTimerFires(r)

(* Concurrent requests of the commercial handler: two invocations, keyed   *)
(* requests for a page, the rate buckets expiring as time passes           *)
QuotaSites == {"up", "down", "hang", "reset"}

Init == InitWith(QuotaSites, {"r1", "r2"}, Histories)

QuotaInputs == Requests({"GET"}, {"kT", "kB"}, {""}, {"example.com"}, {""})

Receive == \E r \in Slots : CReceive(r, QuotaInputs, MaxArrivals)

Next == Receive \/ CSteps \/ Tick

Spec == Init /\ [][Next]_vars

----------------------------------------------------------------------------
(* Properties of the rate limiter under concurrent requests (Spec)         *)

InFlight(r) == req[r].pc \notin {"idle", "done"}

(* C1: while the store answers, at most LimitOf(k) requests of one bucket  *)
(* of key k get past the limit check, whatever the interleaving; and every *)
(* request whose post-increment count exceeds the quota is answered 429    *)
(* RATE_LIMIT_EXCEEDED, having fetched nothing and counted no usage.       *)
QuotaEnforced ==
    /\ \A k \in ValidKeys : admitted[k] <= LimitOf(k)
    /\ \A r \in Slots :
         req[r].apiKey \in ValidKeys /\ req[r].requestCount > LimitOf(req[r].apiKey)
           => /\ req[r].pc = "done"
              /\ req[r].status = 429
              /\ req[r].code = "RATE_LIMIT_EXCEEDED"
              /\ req[r].fetched = <<>>
              /\ req[r].usageIncs = 0

(* two requests of one key at once: one took the last place of the quota   *)
(* and is on its way, the other was rejected                               *)
QuotaRaceWitness ==
    \E r, q \in Slots :
        /\ r # q
        /\ req[r].apiKey = req[q].apiKey
        /\ req[r].status = 429
        /\ InFlight(q)
        /\ req[q].requestCount = LimitOf(req[q].apiKey)
        /\ admitted[req[q].apiKey] = LimitOf(req[q].apiKey)

(* C4, as stated: a rate counter that counted a request has an expiry,     *)
(* once the request that created it is past its kv.expire call.            *)
SettingExpiry(k) == \E r \in Slots : req[r].pc = "rl_expire" /\ req[r].apiKey = k

CounterHasExpiry ==
    \A k \in ValidKeys : rate[k] >= 1 /\ ~SettingExpiry(k) => rateTtl[k] # NoExpiry

(* C8, as stated: the counter equals the number of requests that reached   *)
(* the rate-limit step in the bucket.                                      *)
CountFollowsCalls == \A k \in ValidKeys : rate[k] = calls[k]

(* C8, amended: the counter equals the number of requests whose kv.incr    *)
(* succeeded in the bucket (rejected ones included), and it changes only   *)
(* by growing or by the expiry of the bucket.                              *)
CountFollowsIncrements ==
    /\ [](\A k \in ValidKeys : rate[k] = incrs[k])
    /\ [][\A k \in ValidKeys :
            \/ rate'[k] >= rate[k]
            \/ rate'[k] = 0 /\ Expires(k) /\ req' = req]_vars

(* a rejected request was counted: the counter stands above the quota      *)
CountedRejectionWitness ==
    \E r \in Slots : /\ req[r].status = 429
                     /\ rate[req[r].apiKey] = req[r].requestCount
                     /\ incrs[req[r].apiKey] > admitted[req[r].apiKey]

----------------------------------------------------------------------------
(* One invocation of the commercial handler at a time, every input, within *)
(* one bucket of the rate counters and across a change of day              *)

AllSites == {"up", "indexonly", "nositemap", "err500", "binary", "slow", "stall",
             "reset", "down", "hang"}

MaxSingleArrivals == 2

SingleUrls == {"", "example.com", "https://example.com/", "exa mple.com", "10.1.2.3"}

(* every way of giving a key, and for one key every url and type *)
SingleInputs ==
    Requests({"GET"}, {"", "kT"}, {"", "kB"}, {"", "example.com"}, {""})
      \cup Requests({"GET"}, {"kT"}, {""}, SingleUrls, {"", "sitemap", "robots"})
      \cup Requests({"GET"}, {"bad"}, {"", "kB"}, {"", "example.com"}, {""})
      \cup Requests({"OPTIONS"}, {"", "kT"}, {""}, {"", "example.com"}, {""})

InitSingle == InitWith(AllSites, {"r1"}, Histories)

ReceiveAny == \E r \in Slots : CReceive(r, SingleInputs, MaxSingleArrivals)

NextSingle == ReceiveAny \/ CSteps \/ Midnight

SpecSingle == InitSingle /\ [][NextSingle]_vars

----------------------------------------------------------------------------
(* Properties of one invocation of the commercial handler (SpecSingle)     *)

Commercial(r) == req[r].variant = "commercial"

KeyOf(rec) == IF rec.hdrKey # "" THEN rec.hdrKey ELSE rec.qryKey

Untouched(rec) == rec.rateIncs = 0 /\ rec.usageIncs = 0 /\ rec.fetched = <<>>

(* C2: a non-OPTIONS request with no key (header and query parameter both  *)
(* absent) is answered 401 MISSING_API_KEY, one whose key is not a valid   *)
(* key 401 INVALID_API_KEY, and neither has incremented a rate counter or  *)
(* a usage counter or started a fetch.                                     *)
GatesBeforeEffects ==
    \A r \in Slots :
        Commercial(r) /\ req[r].method # "OPTIONS" /\ KeyOf(req[r]) \notin ValidKeys
          => /\ req[r].pc = "done"
             /\ req[r].status = 401
             /\ req[r].code = IF KeyOf(req[r]) = "" THEN "MISSING_API_KEY"
                              ELSE "INVALID_API_KEY"
             /\ Untouched(req[r])

(* a request with an unknown key and a url, rejected, while the counters   *)
(* of the store stand where the requests before it left them               *)
InvalidKeyWitness ==
    \E r \in Slots : /\ req[r].code = "INVALID_API_KEY"
                     /\ req[r].url = "example.com"
                     /\ Untouched(req[r])
                     /\ \E k \in ValidKeys : rate[k] > 0

(* the statuses a fetch can end with, given what the target does *)
FetchStatuses(out) ==
    CASE out.kind = "neterr" -> {500}
      [] out.kind = "silent" -> {504}
      [] OTHER -> (IF out.late THEN {504} ELSE {})
                    \cup (IF ~IsOk(out.status) THEN {out.status}
                          ELSE IF out.body = "ok" THEN {200}
                          ELSE IF out.body = "err" THEN {500}
                          ELSE {})

(* the statuses of a request that is let through, the store working *)
StatusesWhenAdmitted(url, type) ==
    IF url = "" THEN {400}
    ELSE CASE Resolved[url, type].outcome = "blocked" -> {403}
           [] Resolved[url, type].outcome \in {"throws", "rejects"} -> {500}
           [] OTHER -> FetchStatuses(SiteOutcome(site, Resolved[url, type].path))

PastMetering(rec) == rec.pc \in {"fetch", "body", "done"}

(* C3: a request for which a store call threw, in the rate-limit step or   *)
(* in the usage step, is never answered 429, goes on to URL handling and   *)
(* the fetch, and ends with a status it could have had with the store      *)
(* working and the quota not exceeded.                                     *)
StoreFailureTolerated ==
    \A r \in Slots :
        Commercial(r) /\ (req[r].rlThrew \/ req[r].usThrew)
          => /\ req[r].status # 429
             /\ req[r].pc \in {"us_incr", "us_expire", "fetch", "body", "done"}
             /\ req[r].pc = "done"
                  => req[r].status \in StatusesWhenAdmitted(req[r].url, req[r].type)
             /\ (PastMetering(req[r]) /\ req[r].url # ""
                   /\ Resolved[req[r].url, req[r].type].outcome = "fetch")
                  => req[r].fetched = <<Resolved[req[r].url, req[r].type].resourceUrl>>

(* the quota of the key is used up, kv.incr threw, the request got its 200 *)
UnlimitedOnFailureWitness ==
    \E r \in Slots : /\ req[r].rlThrew
                     /\ req[r].status = 200
                     /\ rate[req[r].apiKey] >= LimitOf(req[r].apiKey)

(* C6, as stated: for type=sitemap the candidates are fetched in order,    *)
(* the first success is reported with its URL, 404 comes only after all    *)
(* three failed, and a host where only /sitemap_index.xml exists gets that *)
(* URL reported.                                                           *)
ExampleCandidates == Candidates("https://example.com")

SitemapCandidatesProbed ==
    \A r \in Slots :
        req[r].type = "sitemap" /\ req[r].url = "example.com" /\ req[r].fetched # <<>>
          => /\ Len(req[r].fetched) <= 3
             /\ req[r].fetched = SubSeq(ExampleCandidates, 1, Len(req[r].fetched))
             /\ (req[r].pc = "done" /\ req[r].status = 200)
                  => req[r].respUrl = req[r].fetched[Len(req[r].fetched)]
             /\ (req[r].pc = "done" /\ req[r].status = 404)
                  => (Len(req[r].fetched) = 3 /\ req[r].code = "Sitemap not found")
             /\ (req[r].pc = "done" /\ site = "indexonly")
                  => (req[r].status = 200 /\ req[r].respUrl = ExampleCandidates[2])

----------------------------------------------------------------------------
(* The open handlers *)

MaxOpenArrivals == 2

InitOpen == InitWith(AllSites, {"r1"}, {Fresh})

OpenInputs == Requests({"GET"}, {""}, {""}, AllUrls, {""} \cup AllTypes)
                \cup Requests({"OPTIONS"}, {""}, {""}, {"", "example.com"}, {""})

ReceiveOpen == \E r \in Slots : OReceive(r, OpenVariants, OpenInputs, MaxOpenArrivals)

NextOpen ==
    \/ ReceiveOpen
    \/ \E r \in Slots : OFetchResponds(r)
    \/ \E r \in Slots : OFetchFails(r)
    \/ \E r \in Slots : OTimerFires(r)
    \/ \E r \in Slots : OBodyArrives(r)
    \/ \E r \in Slots : OBodyFails(r)
    \/ \E r \in Slots : StaleTimerFires(r)
    \/ \E r \in Slots : LeakedTimerFires(r)

SpecOpen == InitOpen /\ [][NextOpen]_vars

----------------------------------------------------------------------------
(* Properties of the open handlers (SpecOpen)                              *)

SecondOctets == {"16", "17", "18", "19", "20", "21", "22", "23",
                 "24", "25", "26", "27", "28", "29", "30", "31"}

(* localhost, 0.0.0.0, 127.0.0.0/8, 10.0.0.0/8, 172.16.0.0/12, 192.168.0.0/16 *)
IsPrivateHost(h) ==
    \/ h \in {"localhost", "0.0.0.0"}
    \/ StartsWith(h, "127.")
    \/ StartsWith(h, "10.")
    \/ StartsWith(h, "192.168.")
    \/ \E o \in SecondOctets : StartsWith(h, "172." \o o \o ".")

(* the inputs whose hostname, once a scheme is given, is a private address *)
PrivateTargets ==
    {u \in AllUrls : u # "" /\ IsPrivateHost(Hostname(WithProtocol(CleanUrl(u))))}

(* C5, as stated: a request whose target hostname is a private address is  *)
(* answered 403 BLOCKED_URL and fetches nothing; example.com is not        *)
(* blocked.                                                                *)
PrivateTargetsBlocked ==
    \A r \in Slots :
        /\ (req[r].pc # "idle" /\ req[r].url \in PrivateTargets)
             => /\ req[r].fetched = <<>>
                /\ req[r].pc = "done"
                     => (req[r].status = 403 /\ req[r].code = "BLOCKED_URL")
        /\ req[r].url = "example.com" => req[r].status # 403

(* C7, as stated: a request whose fetch was aborted by the timer is        *)
(* answered 504 TIMEOUT, and no abort timer is pending once the response   *)
(* is sent.                                                                *)
TimeoutAnswered504 ==
    \A r \in Slots :
        req[r].pc = "done"
          => /\ req[r].aborted => (req[r].status = 504 /\ req[r].code = "TIMEOUT")
             /\ req[r].timer # "pending"
             /\ req[r].leaked = 0

(* C9, as stated: while the handler waits on the target, for the headers   *)
(* or for the body, the abort timer is pending.                            *)
TimerCoversFetchPhase ==
    \A r \in Slots : req[r].pc \in {"fetch", "body"} => req[r].timer = "pending"

====
